---- MODULE Spec2Model ----
(***************************************************************************)
(* The volume lifecycle of nfs-rest-gateway (gateway.go, main.go).         *)
(*                                                                         *)
(* State: the bolt bucket "volumes" (db, the committed store), the one     *)
(* read-write transaction bolt allows at a time (writer, tx), the          *)
(* directories below the data root (dirs), the live export table kept by   *)
(* exportfs (etab), the position of every HTTP request being served (req)  *)
(* and the position of main (phase, todo, log).                            *)
(*                                                                         *)
(* db.Update runs its function under bolt's single writer lock, commits    *)
(* when the function returns nil and rolls back when it returns an error.  *)
(* db.View reads the committed store.  The directory tree and the export   *)
(* table are outside the store: a rollback does not touch them, and they   *)
(* survive the death of the process.                                       *)
(*                                                                         *)
(* Not modelled: a failing b.Put, b.Delete or tx.Commit (store I/O), a     *)
(* json error, the options kept per export-table entry.                    *)
(***************************************************************************)
EXTENDS Naturals, Sequences, FiniteSets, TLC

VARIABLES phase, db, writer, tx, dirs, etab, req, todo, log, failed, died, deleteFailed

vars == <<phase, db, writer, tx, dirs, etab, req, todo, log, failed, died, deleteFailed>>

-----------------------------------------------------------------------------
(* Bounds and inputs *)

MaxReq == 2

Reqs == 1..MaxReq

None == <<>>

\* A name is the sequence of its "/"-separated segments.
Names == { <<"a">>, <<"b">>, <<"x", "..", "b">> }

\* The CreateRequest bodies a client sends.
Bodies == { [Hosts |-> <<"h1">>, Options |-> "rw"],
            [Hosts |-> <<"h1", "h2">>, Options |-> ""] }

root == <<"data">>

-----------------------------------------------------------------------------
(* Pure functions *)

RECURSIVE CleanFrom(_, _)
CleanFrom(segs, acc) ==
    IF segs = <<>> THEN acc
    ELSE LET s == Head(segs) IN
         IF s = "" \/ s = "." THEN CleanFrom(Tail(segs), acc)
         ELSE IF s = ".."
              THEN CleanFrom(Tail(segs),
                             IF acc = <<>> THEN acc ELSE SubSeq(acc, 1, Len(acc) - 1))
              ELSE CleanFrom(Tail(segs), Append(acc, s))

\* filepath.Join cleans its result: "." and empty segments go, ".." removes
\* the segment before it (and nothing at the root of an absolute path).
Join(a, b, c) == CleanFrom(a \o b \o c, <<>>)

nfsPath(name) == Join(root, <<"nfs">>, name)

\* The volume createVolume builds.
NewVolume(name, body) ==
    [Name |-> name,
     Export |-> [Path |-> nfsPath(name), Hosts |-> body.Hosts, Options |-> body.Options]]

\* json.Marshal / json.Unmarshal of a volume: the stored value.
Marshal(v) == <<v.Name, v.Export.Path, v.Export.Hosts, v.Export.Options>>

Unmarshal(data) ==
    [Name |-> data[1],
     Export |-> [Path |-> data[2], Hosts |-> data[3], Options |-> data[4]]]

Flag(s) == [kind |-> "flag", val |-> s]
Target(h, path) == [kind |-> "target", val |-> <<h, path>>]

RECURSIVE exportfsArgs(_, _)
exportfsArgs(v, i) ==
    IF i > Len(v.Export.Hosts) THEN <<>>
    ELSE (IF v.Export.Options # ""
          THEN <<Flag("-o"), Flag(v.Export.Options)>> ELSE <<>>)
         \o <<Target(v.Export.Hosts[i], v.Export.Path)>>
         \o exportfsArgs(v, i + 1)

\* The argument list exportfs(v) hands to the exportfs binary.
exportfs(v) == exportfsArgs(v, 1)

\* The argument list unexport(v) hands to the exportfs binary.
unexport(v) ==
    <<Flag("-u")>> \o [i \in 1..Len(v.Export.Hosts) |-> Target(v.Export.Hosts[i], v.Export.Path)]

Targets(args) == { args[i].val : i \in { j \in 1..Len(args) : args[j].kind = "target" } }

\* A successful run of the exportfs binary on the export table.
cmd(args, table) ==
    IF args # <<>> /\ args[1] = Flag("-ua") THEN {}
    ELSE IF args # <<>> /\ args[1] = Flag("-u") THEN table \ Targets(args)
    ELSE table \cup Targets(args)

\* A failing run: the binary may have handled any part of its targets.
cmdFailed(args, table) ==
    IF args # <<>> /\ args[1] = Flag("-ua") THEN SUBSET table
    ELSE IF args # <<>> /\ args[1] = Flag("-u")
         THEN { table \ s : s \in SUBSET Targets(args) }
    ELSE { table \cup s : s \in SUBSET Targets(args) }

-----------------------------------------------------------------------------
(* State *)

NoBody == [Hosts |-> <<>>, Options |-> ""]

\* A request slot that serves no request.
Free ==
    [op |-> "none", name |-> None, body |-> NoBody, pc |-> "free",
     v |-> None, data |-> None, status |-> 0, path |-> None, called |-> FALSE]

EmptyStore == [n \in Names |-> None]

\* The keys of the bucket.
Keys(store) == { n \in Names : store[n] # None }

\* Byte order of the names of the model, the order b.ForEach visits keys in.
Rank(n) == IF n = <<"a">> THEN 1 ELSE IF n = <<"b">> THEN 2 ELSE 3

RECURSIVE SortedKeys(_)
SortedKeys(S) ==
    IF S = {} THEN <<>>
    ELSE LET m == CHOOSE x \in S : \A y \in S : Rank(x) <= Rank(y)
         IN <<m>> \o SortedKeys(S \ {m})

\* Mutant of WriterLocked: read-write transactions are not serialized.
WriterLockedNever == FALSE

\* bolt lets one read-write transaction run at a time.
WriterLocked == writer # 0

\* The first start of the process on an empty data root.
Init ==
    /\ phase = "boot"
    /\ db = EmptyStore
    /\ writer = 0
    /\ tx = EmptyStore
    /\ dirs = {}
    /\ etab = {}
    /\ req = [r \in Reqs |-> Free]
    /\ todo = <<>>
    /\ log = <<>>
    /\ failed = FALSE
    /\ died = FALSE
    /\ deleteFailed = {}

\* db.Update returned nil: the transaction commits.
Commit == db' = tx /\ writer' = 0 /\ tx' = EmptyStore

\* db.Update returned an error: the transaction is rolled back.
Rollback == db' = db /\ writer' = 0 /\ tx' = EmptyStore

UnchangedMain == UNCHANGED <<phase, todo, log>>

-----------------------------------------------------------------------------
(* main *)

\* g.Reload opens its read transaction and starts b.ForEach.
ReloadBegin ==
    /\ phase = "boot"
    /\ phase' = "reload"
    /\ todo' = SortedKeys(Keys(db))
    /\ log' = <<>>
    /\ UNCHANGED <<db, writer, tx, dirs, etab, req, failed, died, deleteFailed>>

\* One record of the iteration: exportfs(vol) succeeds.
ReloadApply ==
    /\ phase = "reload" /\ todo # <<>>
    /\ LET vol == Unmarshal(db[Head(todo)]) IN
         /\ etab' = cmd(exportfs(vol), etab)
         /\ log' = Append(log, [name |-> vol.Name, ok |-> TRUE])
    /\ todo' = Tail(todo)
    /\ UNCHANGED <<phase, db, writer, tx, dirs, req, failed, died, deleteFailed>>

\* Mutant of ReloadApplyFail: the callback returns the error, which ends b.ForEach.
ReloadApplyAbort ==
    /\ phase = "reload" /\ todo # <<>>
    /\ LET vol == Unmarshal(db[Head(todo)]) IN
         /\ etab' \in cmdFailed(exportfs(vol), etab)
         /\ log' = Append(log, [name |-> vol.Name, ok |-> FALSE])
    /\ todo' = <<>>
    /\ failed' = TRUE
    /\ UNCHANGED <<phase, db, writer, tx, dirs, req, died, deleteFailed>>

\* One record of the iteration: exportfs(vol) fails, which is logged.
ReloadApplyFail ==
    /\ phase = "reload" /\ todo # <<>>
    /\ LET vol == Unmarshal(db[Head(todo)]) IN
         /\ etab' \in cmdFailed(exportfs(vol), etab)
         /\ log' = Append(log, [name |-> vol.Name, ok |-> FALSE])
    /\ todo' = Tail(todo)
    /\ failed' = TRUE
    /\ UNCHANGED <<phase, db, writer, tx, dirs, req, deleteFailed, died>>

\* b.ForEach is through: Reload returns nil.
ReloadReturn ==
    /\ phase = "reload" /\ todo = <<>>
    /\ phase' = "reloaded"
    /\ UNCHANGED <<db, writer, tx, dirs, etab, req, todo, log, failed, died, deleteFailed>>

\* net.Listen and http.Serve: requests are accepted from here on.
Serve ==
    /\ phase = "reloaded"
    /\ phase' = "serving"
    /\ log' = <<>>
    /\ UNCHANGED <<db, writer, tx, dirs, etab, req, todo, failed, died, deleteFailed>>

\* The process ends: its requests and its open transaction are gone.
Exit ==
    /\ phase' = "down"
    /\ writer' = 0
    /\ tx' = EmptyStore
    /\ req' = [r \in Reqs |-> Free]
    /\ todo' = <<>>
    /\ log' = <<>>

\* The process dies (a crash, a kill) at any point.
Crash ==
    /\ phase # "down"
    /\ Exit
    /\ died' = TRUE
    /\ UNCHANGED <<db, dirs, etab, deleteFailed, failed>>

\* Mutant of Shutdown: the exports are retracted record by record (unexport
\* of every stored volume) where the code runs one exportfs -ua.
ShutdownEach ==
    /\ phase # "down"
    /\ etab' = etab \ UNION { Targets(unexport(Unmarshal(db[n]))) : n \in Keys(db) }
    /\ Exit
    /\ died' = TRUE
    /\ UNCHANGED <<db, dirs, deleteFailed, failed>>

\* SIGTERM or SIGINT: handleShutdown runs g.Shutdown (exportfs -ua), then os.Exit(0).
Shutdown ==
    /\ phase # "down"
    /\ etab' = cmd(<<Flag("-ua")>>, etab)
    /\ Exit
    /\ died' = TRUE
    /\ UNCHANGED <<db, dirs, deleteFailed, failed>>

\* The same with exportfs -ua failing: logged, and the process exits.
ShutdownFail ==
    /\ phase # "down"
    /\ etab' \in cmdFailed(<<Flag("-ua")>>, etab)
    /\ failed' = TRUE
    /\ died' = TRUE
    /\ Exit
    /\ UNCHANGED <<db, dirs, deleteFailed>>

\* The process is started again on the same data root.
Restart ==
    /\ phase = "down"
    /\ phase' = "boot"
    /\ UNCHANGED <<db, writer, tx, dirs, etab, req, todo, log, failed, died, deleteFailed>>

-----------------------------------------------------------------------------
(* Requests *)

Set(r, fields) == req' = [req EXCEPT ![r] = fields]

\* Every response has reached its client.
Idle == \A r \in Reqs : req[r].pc # "done"

\* A new request is served on the first connection that is free.
FirstFree(r) == \A q \in Reqs : q < r => req[q].pc # "free"

\* The client has its response: the connection serves the next request.
Return(r) ==
    /\ req[r].pc = "done"
    /\ Set(r, Free)
    /\ UNCHANGED <<db, writer, tx, dirs, etab, failed, died, deleteFailed>>
    /\ UnchangedMain

\* Mutant of Begin: the listener accepts requests while Reload still runs
\* (no wait for phase "serving").
BeginEarly(r) ==
    /\ phase \in {"reload", "reloaded", "serving"}
    /\ ~WriterLocked
    /\ \E op \in {"create", "delete"}, n \in Names, b \in Bodies \cup {NoBody} :
         /\ (op = "create") = (b \in Bodies)
         /\ IF req[r].pc = "start"
            THEN op = req[r].op /\ n = req[r].name /\ b = req[r].body
            ELSE req[r].pc = "free" /\ Idle /\ FirstFree(r)
         /\ Set(r, [Free EXCEPT !.op = op, !.name = n, !.body = b,
                                !.pc = "tx", !.data = db[n]])
    /\ writer' = r
    /\ tx' = db
    /\ UNCHANGED <<db, dirs, etab, failed, died, deleteFailed>>
    /\ UnchangedMain

\* Mutant of Begin: the function starts without the writer lock (a read-only
\* db.View where the code has db.Update).
BeginUnlocked(r) ==
    /\ phase = "serving"
    /\ \E op \in {"create", "delete"}, n \in Names, b \in Bodies \cup {NoBody} :
         /\ (op = "create") = (b \in Bodies)
         /\ IF req[r].pc = "start"
            THEN op = req[r].op /\ n = req[r].name /\ b = req[r].body
            ELSE req[r].pc = "free" /\ Idle /\ FirstFree(r)
         /\ Set(r, [Free EXCEPT !.op = op, !.name = n, !.body = b,
                                !.pc = "tx", !.data = db[n]])
    /\ writer' = r
    /\ tx' = db
    /\ UNCHANGED <<db, dirs, etab, failed, died, deleteFailed>>
    /\ UnchangedMain

\* The parameter checks of createVolume and deleteVolume have passed and
\* g.db.Update begins its read-write transaction, once no other one runs;
\* the function starts with b.Get.  The request is one that waited for the
\* transaction (pc "start") or one the router hands over now.
Begin(r) ==
    /\ phase = "serving"
    /\ ~WriterLocked
    /\ \E op \in {"create", "delete"}, n \in Names, b \in Bodies \cup {NoBody} :
         /\ (op = "create") = (b \in Bodies)
         /\ IF req[r].pc = "start"
            THEN op = req[r].op /\ n = req[r].name /\ b = req[r].body
            ELSE req[r].pc = "free" /\ Idle /\ FirstFree(r)
         /\ Set(r, [Free EXCEPT !.op = op, !.name = n, !.body = b,
                                !.pc = "tx", !.data = db[n]])
    /\ writer' = r
    /\ tx' = db
    /\ UNCHANGED <<db, dirs, etab, failed, died, deleteFailed>>
    /\ UnchangedMain

(* createVolume *)

\* Mutant of CreateExists: without the data != nil check the function goes on
\* and puts the new volume over the stored one.
CreateExistsOverwrite(r) ==
    /\ req[r].op = "create" /\ req[r].pc = "tx"
    /\ req[r].data # None
    /\ LET v == NewVolume(req[r].name, req[r].body) IN
         /\ tx' = [tx EXCEPT ![req[r].name] = Marshal(v)]
         /\ Set(r, [req[r] EXCEPT !.pc = "mkdir", !.v = <<v>>])
    /\ UNCHANGED <<db, writer, dirs, etab, failed, died, deleteFailed>>
    /\ UnchangedMain

\* data != nil: the function returns nil with v still nil; the handler answers 409.
CreateExists(r) ==
    /\ req[r].op = "create" /\ req[r].pc = "tx"
    /\ req[r].data # None
    /\ Commit
    /\ Set(r, [req[r] EXCEPT !.pc = "done", !.status = 409])
    /\ UNCHANGED <<dirs, etab, failed, died, deleteFailed>>
    /\ UnchangedMain

\* The volume is built, marshalled and put into the bucket.
CreatePut(r) ==
    /\ req[r].op = "create" /\ req[r].pc = "tx"
    /\ req[r].data = None
    /\ LET v == NewVolume(req[r].name, req[r].body) IN
         /\ tx' = [tx EXCEPT ![req[r].name] = Marshal(v)]
         /\ Set(r, [req[r] EXCEPT !.pc = "mkdir", !.v = <<v>>])
    /\ UNCHANGED <<db, writer, dirs, etab, failed, died, deleteFailed>>
    /\ UnchangedMain

\* os.MkdirAll(v.Export.Path) succeeds.
CreateMkdir(r) ==
    /\ req[r].op = "create" /\ req[r].pc = "mkdir"
    /\ dirs' = dirs \cup {req[r].v[1].Export.Path}
    /\ Set(r, [req[r] EXCEPT !.pc = "exportfs"])
    /\ UNCHANGED <<db, writer, tx, etab, failed, died, deleteFailed>>
    /\ UnchangedMain

\* os.MkdirAll fails: the function returns the error, the handler answers 500.
CreateMkdirFail(r) ==
    /\ req[r].op = "create" /\ req[r].pc = "mkdir"
    /\ Rollback
    /\ Set(r, [req[r] EXCEPT !.pc = "done", !.status = 500])
    /\ failed' = TRUE
    /\ UNCHANGED <<dirs, etab, deleteFailed, died>>
    /\ UnchangedMain

\* exportfs(v) succeeds.
CreateExportfs(r) ==
    /\ req[r].op = "create" /\ req[r].pc = "exportfs"
    /\ etab' = cmd(exportfs(req[r].v[1]), etab)
    /\ Set(r, [req[r] EXCEPT !.pc = "commit", !.called = TRUE])
    /\ UNCHANGED <<db, writer, tx, dirs, failed, died, deleteFailed>>
    /\ UnchangedMain

\* exportfs(v) fails: the function returns the error, the handler answers 500.
CreateExportfsFail(r) ==
    /\ req[r].op = "create" /\ req[r].pc = "exportfs"
    /\ etab' \in cmdFailed(exportfs(req[r].v[1]), etab)
    /\ Rollback
    /\ Set(r, [req[r] EXCEPT !.pc = "done", !.status = 500, !.called = TRUE])
    /\ failed' = TRUE
    /\ UNCHANGED <<dirs, deleteFailed, died>>
    /\ UnchangedMain

\* The function returns nil: commit, and the handler answers with name and path.
CreateCommit(r) ==
    /\ req[r].op = "create" /\ req[r].pc = "commit"
    /\ Commit
    /\ Set(r, [req[r] EXCEPT !.pc = "done", !.status = 200,
                             !.path = req[r].v[1].Export.Path])
    /\ deleteFailed' = deleteFailed \ {req[r].name}
    /\ UNCHANGED <<dirs, etab, failed, died>>
    /\ UnchangedMain

(* deleteVolume *)

\* Mutant of DeleteAbsent: without the data == nil check the function goes on
\* to unexport and RemoveAll with the zero volume (no hosts, empty path).
DeleteAbsentUnchecked(r) ==
    /\ req[r].op = "delete" /\ req[r].pc = "tx"
    /\ req[r].data = None
    /\ Commit
    /\ Set(r, [req[r] EXCEPT !.pc = "done", !.status = 200, !.called = TRUE])
    /\ UNCHANGED <<dirs, etab, failed, died, deleteFailed>>
    /\ UnchangedMain

\* data == nil: the function returns nil; the handler writes nothing (200).
DeleteAbsent(r) ==
    /\ req[r].op = "delete" /\ req[r].pc = "tx"
    /\ req[r].data = None
    /\ Commit
    /\ Set(r, [req[r] EXCEPT !.pc = "done", !.status = 200])
    /\ UNCHANGED <<dirs, etab, failed, died, deleteFailed>>
    /\ UnchangedMain

\* b.Delete, then the record read before it is unmarshalled.
DeleteRecord(r) ==
    /\ req[r].op = "delete" /\ req[r].pc = "tx"
    /\ req[r].data # None
    /\ tx' = [tx EXCEPT ![req[r].name] = None]
    /\ Set(r, [req[r] EXCEPT !.pc = "unexport", !.v = <<Unmarshal(req[r].data)>>])
    /\ UNCHANGED <<db, writer, dirs, etab, failed, died, deleteFailed>>
    /\ UnchangedMain

\* unexport(&v) succeeds.
DeleteUnexport(r) ==
    /\ req[r].op = "delete" /\ req[r].pc = "unexport"
    /\ etab' = cmd(unexport(req[r].v[1]), etab)
    /\ Set(r, [req[r] EXCEPT !.pc = "rmdir", !.called = TRUE])
    /\ UNCHANGED <<db, writer, tx, dirs, failed, died, deleteFailed>>
    /\ UnchangedMain

\* unexport(&v) fails: the function returns the error, the handler answers 500.
DeleteUnexportFail(r) ==
    /\ req[r].op = "delete" /\ req[r].pc = "unexport"
    /\ etab' \in cmdFailed(unexport(req[r].v[1]), etab)
    /\ Rollback
    /\ Set(r, [req[r] EXCEPT !.pc = "done", !.status = 500, !.called = TRUE])
    /\ failed' = TRUE
    /\ deleteFailed' = deleteFailed \cup {req[r].name}
    /\ UNCHANGED <<dirs, died>>
    /\ UnchangedMain

\* Mutant of DeleteRemoveAll: the directory is left in place.
DeleteRemoveAllKeep(r) ==
    /\ req[r].op = "delete" /\ req[r].pc = "rmdir"
    /\ Set(r, [req[r] EXCEPT !.pc = "commit"])
    /\ UNCHANGED <<db, writer, tx, dirs, etab, failed, died, deleteFailed>>
    /\ UnchangedMain

\* os.RemoveAll(v.Export.Path) succeeds, also on a directory that is not there.
DeleteRemoveAll(r) ==
    /\ req[r].op = "delete" /\ req[r].pc = "rmdir"
    /\ dirs' = dirs \ {req[r].v[1].Export.Path}
    /\ Set(r, [req[r] EXCEPT !.pc = "commit"])
    /\ UNCHANGED <<db, writer, tx, etab, failed, died, deleteFailed>>
    /\ UnchangedMain

\* Mutant of DeleteRemoveAllFail: without the !os.IsNotExist(err) test a
\* directory that is not there is an error too.
DeleteRemoveAllFailAlways(r) ==
    /\ req[r].op = "delete" /\ req[r].pc = "rmdir"
    /\ Rollback
    /\ Set(r, [req[r] EXCEPT !.pc = "done", !.status = 500])
    /\ failed' = TRUE
    /\ deleteFailed' = deleteFailed \cup {req[r].name}
    /\ UNCHANGED <<dirs, etab, died>>
    /\ UnchangedMain

\* os.RemoveAll fails: the function returns the error, the handler answers 500.
DeleteRemoveAllFail(r) ==
    /\ req[r].op = "delete" /\ req[r].pc = "rmdir"
    /\ req[r].v[1].Export.Path \in dirs
    /\ Rollback
    /\ Set(r, [req[r] EXCEPT !.pc = "done", !.status = 500])
    /\ failed' = TRUE
    /\ deleteFailed' = deleteFailed \cup {req[r].name}
    /\ UNCHANGED <<dirs, etab, died>>
    /\ UnchangedMain

\* The function returns nil: commit, and the handler writes nothing (200).
DeleteCommit(r) ==
    /\ req[r].op = "delete" /\ req[r].pc = "commit"
    /\ Commit
    /\ Set(r, [req[r] EXCEPT !.pc = "done", !.status = 200])
    /\ deleteFailed' = deleteFailed \ {req[r].name}
    /\ UNCHANGED <<dirs, etab, failed, died>>
    /\ UnchangedMain

(* getVolume *)

\* Mutant of GetVolume: without the data == nil check an absent name is
\* answered 200, with the path computed from the name.
GetVolumeNoCheck(r) ==
    /\ phase = "serving"
    /\ req[r].pc = "free" /\ Idle /\ FirstFree(r)
    /\ \E n \in Names :
         Set(r, [Free EXCEPT !.op = "get", !.name = n, !.pc = "done", !.data = db[n],
                             !.status = 200,
                             !.path = IF db[n] = None THEN nfsPath(n)
                                      ELSE Unmarshal(db[n]).Export.Path])
    /\ UNCHANGED <<db, writer, tx, dirs, etab, failed, died, deleteFailed>>
    /\ UnchangedMain

\* Mutant of GetVolume: a dirty read, of the writes of the transaction that
\* is open where the code reads the committed store.
GetVolumeDirty(r) ==
    /\ phase = "serving"
    /\ req[r].pc = "free" /\ Idle /\ FirstFree(r)
    /\ \E n \in Names :
         LET data == IF writer # 0 THEN tx[n] ELSE db[n] IN
         Set(r, [Free EXCEPT !.op = "get", !.name = n, !.pc = "done", !.data = data,
                             !.status = IF data = None THEN 404 ELSE 200,
                             !.path = IF data = None THEN None
                                      ELSE Unmarshal(data).Export.Path])
    /\ UNCHANGED <<db, writer, tx, dirs, etab, failed, died, deleteFailed>>
    /\ UnchangedMain

\* g.db.View reads the committed store; 404 when the key is not there.
GetVolume(r) ==
    /\ phase = "serving"
    /\ req[r].pc = "free" /\ Idle /\ FirstFree(r)
    /\ \E n \in Names :
         Set(r, [Free EXCEPT !.op = "get", !.name = n, !.pc = "done", !.data = db[n],
                             !.status = IF db[n] = None THEN 404 ELSE 200,
                             !.path = IF db[n] = None THEN None
                                      ELSE Unmarshal(db[n]).Export.Path])
    /\ UNCHANGED <<db, writer, tx, dirs, etab, failed, died, deleteFailed>>
    /\ UnchangedMain

-----------------------------------------------------------------------------
(* Specification *)

Next ==
    \/ ReloadBegin \/ ReloadApply \/ ReloadApplyFail \/ ReloadReturn \/ Serve
    \/ Crash \/ Shutdown \/ ShutdownFail \/ Restart
    \/ \E r \in Reqs :
         \/ Return(r) \/ Begin(r) \/ GetVolume(r)
         \/ CreateExists(r) \/ CreatePut(r) \/ CreateMkdir(r) \/ CreateMkdirFail(r)
         \/ CreateExportfs(r) \/ CreateExportfsFail(r) \/ CreateCommit(r)
         \/ DeleteAbsent(r) \/ DeleteRecord(r) \/ DeleteUnexport(r)
         \/ DeleteUnexportFail(r) \/ DeleteRemoveAll(r) \/ DeleteRemoveAllFail(r)
         \/ DeleteCommit(r)

Spec == Init /\ [][Next]_vars

\* The targets of the stored record of name n.
RecordTargets(n) == Targets(exportfs(Unmarshal(db[n])))

\* Requests that race: every connection holds a createVolume, or every one a
\* deleteVolume, of one name, all of them before g.db.Update, on a store that
\* earlier successful creates have filled.  A create races for a name that is
\* absent, a delete for one that is persisted.
InitRace ==
    /\ phase = "serving"
    /\ writer = 0
    /\ tx = EmptyStore
    /\ todo = <<>>
    /\ log = <<>>
    /\ failed = FALSE
    /\ died = FALSE
    /\ deleteFailed = {}
    /\ \E st \in [Names -> Bodies \cup {NoBody}] :
         /\ db = [n \in Names |-> IF st[n] = NoBody THEN None
                                  ELSE Marshal(NewVolume(n, st[n]))]
         /\ dirs = { nfsPath(n) : n \in { m \in Names : st[m] # NoBody } }
         /\ etab = UNION { Targets(exportfs(NewVolume(n, st[n]))) :
                            n \in { m \in Names : st[m] # NoBody } }
         /\ \E op \in {"create", "delete"}, n \in Names :
              /\ (op = "create") = (st[n] = NoBody)
              /\ req \in [Reqs -> { [Free EXCEPT !.op = op, !.name = n, !.pc = "start",
                                                 !.body = b] :
                                    b \in IF op = "create" THEN Bodies ELSE {NoBody} }]

NextRace ==
    \E r \in Reqs :
         \/ Begin(r)
         \/ CreateExists(r) \/ CreatePut(r) \/ CreateMkdir(r) \/ CreateMkdirFail(r)
         \/ CreateExportfs(r) \/ CreateExportfsFail(r) \/ CreateCommit(r)
         \/ DeleteAbsent(r) \/ DeleteRecord(r) \/ DeleteUnexport(r)
         \/ DeleteUnexportFail(r) \/ DeleteRemoveAll(r) \/ DeleteRemoveAllFail(r)
         \/ DeleteCommit(r)

SpecRace == InitRace /\ [][NextRace]_vars

-----------------------------------------------------------------------------
(* Properties *)

\* No createVolume or deleteVolume is inside its transaction.
Quiescent == writer = 0

\* Some export-table entry is for the directory of name n.
HasExport(n) == \E t \in etab : t[2] = nfsPath(n)

LogNames == [i \in 1..Len(log) |-> log[i].name]

Creates == { r \in Reqs : req[r].op = "create" }
Deletes == { r \in Reqs : req[r].op = "delete" }

\* C1 (as claimed): when exportfs fails in createVolume, the request returns
\* 500 and at its return the record of the name is absent from the store and
\* the directory root/nfs/<name> does not exist.
C1_CreateAtomicity ==
    [][\A r \in Reqs :
         (req[r].op = "create" /\ req[r].pc = "exportfs" /\ req'[r].pc = "done")
         => /\ req'[r].status = 500
            /\ db'[req[r].name] = None
            /\ nfsPath(req[r].name) \notin dirs']_vars

\* C2 (as claimed): when unexport fails in deleteVolume, the request returns
\* 500 and the record is nonetheless absent from the store afterwards.
C2_DeleteAsymmetry ==
    [][\A r \in Reqs :
         (req[r].op = "delete" /\ req[r].pc = "unexport" /\ req'[r].pc = "done")
         => /\ req'[r].status = 500
            /\ db'[req[r].name] = None]_vars

\* C3: when concurrent createVolume requests for one absent name have all
\* returned and no step failed, exactly one answered 200 and every other one
\* 409; only the successful one put a record and called exportfs, and the
\* stored record is the one it built.
C3_NoDoubleCreate ==
    (Creates = Reqs /\ ~failed /\ \A r \in Reqs : req[r].pc = "done")
    => \E w \in Reqs :
         /\ req[w].status = 200
         /\ \A r \in Reqs \ {w} : req[r].status = 409
         /\ \A r \in Reqs : (req[r].v # None) = (r = w)
         /\ \A r \in Reqs : req[r].called = (r = w)
         /\ db[req[w].name] = Marshal(NewVolume(req[w].name, req[w].body))

\* C3 witness: two racing creates with different bodies have both returned,
\* the first connection with 409 and the second with 200.
C3_Witness ==
    /\ Creates = Reqs /\ ~failed
    /\ \A r \in Reqs : req[r].pc = "done"
    /\ req[1].status = 409 /\ req[2].status = 200
    /\ req[1].body # req[2].body
    /\ db[req[2].name] = Marshal(NewVolume(req[2].name, req[2].body))

\* C4 (as claimed): of the concurrent deleteVolume requests for one persisted
\* name at most one calls unexport.
C4_NoDoubleRetract ==
    Cardinality({ r \in Deletes : req[r].called }) <= 1

\* C5: a deleteVolume that finds no record for its name answers 200, never
\* goes on to b.Delete or unexport, and none of its steps changes the store,
\* the directories or the export table.
C5_IdempotentDelete ==
    [][\A r \in Reqs :
         (req'[r] # req[r] /\ req'[r].op = "delete" /\ req'[r].data = None)
         => /\ req'[r].pc \in {"tx", "done"}
            /\ req'[r].pc = "done" => req'[r].status = 200
            /\ ~req'[r].called
            /\ UNCHANGED <<db, dirs, etab>>]_vars

\* C5 witness: a deleteVolume of a name without a record has returned 200
\* while another volume is persisted and exported.
C5_Witness ==
    \E r \in Reqs :
        /\ req[r].op = "delete" /\ req[r].pc = "done"
        /\ req[r].data = None /\ req[r].status = 200
        /\ db[req[r].name] = None
        /\ Keys(db) # {} /\ etab # {}

\* C6: Reload calls exportfs once for every persisted record, in key order,
\* whether or not earlier calls failed; when it has returned (nil: main goes
\* on to listen) the targets of every record whose call succeeded are in the
\* export table.
C6_ReloadAppliesAll ==
    phase \in {"reload", "reloaded"}
    => /\ LogNames \o todo = SortedKeys(Keys(db))
       /\ phase = "reloaded"
          => \A i \in 1..Len(log) : log[i].ok => RecordTargets(log[i].name) \subseteq etab

\* C6 witness: Reload has returned over two records; the call for the first
\* failed and exported nothing, the call for the second succeeded.
C6_Witness ==
    /\ phase = "reloaded"
    /\ Len(log) = 2
    /\ ~log[1].ok /\ log[2].ok
    /\ ~HasExport(log[1].name)
    /\ etab = RecordTargets(log[2].name)

\* C7 (as claimed): after the process died and was started again, with no
\* directory or exportfs step ever failing, once Reload has returned with
\* every call succeeding the export table has an entry for a name's directory
\* if and only if the name has a record.
C7_CrashConsistency ==
    (phase = "reloaded" /\ died /\ ~failed /\ \A i \in 1..Len(log) : log[i].ok)
    => \A n \in Names : HasExport(n) <=> db[n] # None

\* C8 (as claimed): while the process has never ended and no create or delete
\* is in its transaction, a name has a record if and only if its directory
\* exists (steps of earlier requests may have failed).
C8_RecordIffDirectory ==
    (phase = "serving" /\ ~died /\ Quiescent)
    => \A n \in Names : db[n] # None <=> nfsPath(n) \in dirs

\* C9 (as claimed): Reload never calls exportfs for a name whose deleteVolume
\* removed the record and then failed in unexport or RemoveAll, unless a
\* createVolume of the name has succeeded since.
C9_NeverReexported ==
    \A i \in 1..Len(log) : log[i].name \notin deleteFailed

\* C10 (as claimed): while no step has failed, the process has never ended
\* and no create or delete is in its transaction, every name with a record
\* has its directory and one export-table entry per host, and every
\* export-table entry is a target of some record.
C10_StateMachine ==
    (phase = "serving" /\ ~died /\ ~failed /\ Quiescent)
    => /\ \A n \in Keys(db) : nfsPath(n) \in dirs /\ RecordTargets(n) \subseteq etab
       /\ \A t \in etab : \E n \in Keys(db) : t \in RecordTargets(n)

\* The step in which createVolume r returns after its function returned nil
\* with a volume, the one in which deleteVolume r returns after its function
\* ran to its end, and the one in which getVolume r is served.
CreateSucceeds(r) == req[r].op = "create" /\ req[r].pc = "commit" /\ req'[r].pc = "done"
DeleteSucceeds(r) == req[r].op = "delete" /\ req[r].pc = "commit" /\ req'[r].pc = "done"
GetServed(r) == req[r].pc = "free" /\ req'[r].op = "get"

\* C11: a createVolume none of whose steps fails answers 200 with the path
\* that is in the record it has committed; a getVolume of a name with a record
\* answers 200 with the path of that record; a deleteVolume none of whose
\* steps fails answers 200 and leaves the record absent, no export-table entry
\* of any host of the volume and no directory; a getVolume of a name without
\* a record answers 404.
C11_Lifecycle ==
    [][\A r \in Reqs :
         /\ CreateSucceeds(r)
            => /\ req'[r].status = 200
               /\ db'[req[r].name] # None
               /\ req'[r].path = Unmarshal(db'[req[r].name]).Export.Path
         /\ GetServed(r)
            => IF db[req'[r].name] # None
               THEN /\ req'[r].status = 200
                    /\ req'[r].path = Unmarshal(db[req'[r].name]).Export.Path
               ELSE req'[r].status = 404
         /\ DeleteSucceeds(r)
            => /\ req'[r].status = 200
               /\ db'[req[r].name] = None
               /\ Targets(unexport(req[r].v[1])) \cap etab' = {}
               /\ req[r].v[1].Export.Path \notin dirs'
      ]_vars

\* A deleteVolume of a volume that was there has returned 200, with no step
\* ever having failed: record, exports and directory are gone.
C11_Witness ==
    \E r \in Deletes :
        /\ req[r].pc = "done" /\ req[r].status = 200 /\ req[r].data # None
        /\ ~failed
        /\ db[req[r].name] = None
        /\ ~HasExport(req[r].name)
        /\ nfsPath(req[r].name) \notin dirs

\* C12: a createVolume that finds a record of its name does nothing but
\* return: it answers 409, the store, the directories and the export table
\* are what they were and exportfs has not been called; and no step replaces
\* a stored record by another one (a record only ever goes away).
C12_CreateConflict ==
    [][/\ \A r \in Reqs :
            (req[r].op = "create" /\ req[r].pc = "tx" /\ req[r].data # None)
            => \/ req'[r] = req[r]
               \/ req'[r] = Free /\ phase' = "down"
               \/ /\ req'[r].pc = "done" /\ req'[r].status = 409
                  /\ ~req'[r].called
                  /\ UNCHANGED <<db, dirs, etab>>
       /\ \A n \in Names : db[n] # None => db'[n] \in {db[n], None}
      ]_vars

\* A createVolume has been answered 409 for a name whose record holds other
\* hosts than the request carried.
C12_Witness ==
    \E r \in Creates :
        /\ req[r].pc = "done" /\ req[r].status = 409
        /\ db[req[r].name] # None
        /\ Unmarshal(db[req[r].name]).Export.Hosts # req[r].body.Hosts

\* C13: the step that serves a getVolume leaves the store, the open
\* transaction, the directories and the export table as they are and calls no
\* exportfs; it answers 200 with the stored path when the name has a record
\* and 404 when it has none.
C13_GetPureLookup ==
    [][\A r \in Reqs :
         GetServed(r)
         => /\ UNCHANGED <<db, tx, writer, dirs, etab>>
            /\ ~req'[r].called
            /\ req'[r].pc = "done"
            /\ req'[r].status = (IF db[req'[r].name] = None THEN 404 ELSE 200)
            /\ req'[r].path = (IF db[req'[r].name] = None THEN None
                               ELSE Unmarshal(db[req'[r].name]).Export.Path)
      ]_vars

\* A getVolume has been answered 200 with the stored path while a create or
\* delete is inside its transaction.
C13_Witness ==
    \E r \in Reqs :
        /\ req[r].op = "get" /\ req[r].pc = "done" /\ req[r].status = 200
        /\ db[req[r].name] # None
        /\ req[r].path = Unmarshal(db[req[r].name]).Export.Path
        /\ writer # 0

\* C14 (as claimed): the path a successful createVolume stores and returns,
\* and the one a getVolume returns, is the root followed by "nfs" followed by
\* the name.
C14_PathDeterminism ==
    [][\A r \in Reqs :
         /\ CreateSucceeds(r)
            => /\ req'[r].path = root \o <<"nfs">> \o req[r].name
               /\ Unmarshal(db'[req[r].name]).Export.Path = req'[r].path
         /\ (GetServed(r) /\ req'[r].status = 200)
            => req'[r].path = root \o <<"nfs">> \o req'[r].name
      ]_vars

\* C15: a step that ends the process leaves the store and the directories as
\* they are, and the export table either as it is (the process was killed),
\* empty (exportfs -ua succeeded) or partly retracted with the failure noted;
\* nothing but a delete's unexport retracts an export without the process
\* ending in the same step; and the store is the same when the process is
\* started again.
C15_Shutdown ==
    [][/\ (phase # "down" /\ phase' = "down")
          => /\ db' = db /\ dirs' = dirs
             /\ \/ etab' = etab
                \/ etab' = {}
                \/ failed' /\ etab' \subseteq etab
       /\ (etab' # etab /\ etab' \subseteq etab /\ \A r \in Reqs : req[r].pc # "unexport")
          => phase' = "down"
       /\ phase = "down" => db' = db
      ]_vars

\* The process has ended with the record of a still stored and no export
\* left, no call ever having failed: Shutdown has run.
C15_Witness ==
    /\ phase = "down" /\ ~failed
    /\ db[<<"a">>] # None
    /\ etab = {}

\* C16 (as claimed): in a createVolume the directory is made only once the
\* record is written, exportfs is called only once record and directory are
\* there, and a createVolume that returns 500 leaves no record of its name
\* and, where no other volume has the path and nothing has failed or ended
\* before, no directory.
C16_CreateOrdering ==
    [][\A r \in Creates :
         /\ (dirs' # dirs /\ writer = r)
            => req[r].pc = "mkdir" /\ tx[req[r].name] # None
         /\ (req'[r].called /\ ~req[r].called)
            => /\ req[r].pc = "exportfs"
               /\ tx[req[r].name] # None
               /\ req[r].v[1].Export.Path \in dirs
         /\ (req[r].pc \in {"mkdir", "exportfs"} /\ req'[r].pc = "done"
             /\ req'[r].status = 500)
            => /\ db'[req[r].name] = None
               /\ (/\ ~failed /\ ~died
                   /\ \A m \in Keys(db) : nfsPath(m) # req[r].v[1].Export.Path)
                  => req[r].v[1].Export.Path \notin dirs'
      ]_vars

\* C17: in a deleteVolume of a stored volume unexport is called only once the
\* record is deleted in the transaction; a directory goes away only in the
\* RemoveAll step of a deleteVolume whose unexport has succeeded (no export
\* of the volume is left); and the RemoveAll step of a directory that is not
\* there goes on to the commit.
C17_DeleteOrdering ==
    [][/\ \A r \in Deletes :
            /\ (req'[r].called /\ ~req[r].called)
               => /\ req[r].pc = "unexport"
                  /\ req[r].data # None /\ tx[req[r].name] = None
            /\ (req[r].pc = "rmdir" /\ req[r].v[1].Export.Path \notin dirs
                /\ req'[r] # req[r] /\ phase' # "down")
               => req'[r].pc = "commit"
       /\ (dirs' # dirs /\ dirs' \subseteq dirs)
          => \E r \in Deletes :
                /\ writer = r /\ req[r].pc = "rmdir" /\ req[r].called
                /\ tx[req[r].name] = None
                /\ Targets(unexport(req[r].v[1])) \cap etab = {}
                /\ dirs' = dirs \ {req[r].v[1].Export.Path}
      ]_vars

\* A deleteVolume stands before RemoveAll, its unexport done, and the
\* directory of its volume is not there.
C17_Witness ==
    \E r \in Deletes :
        /\ req[r].pc = "rmdir" /\ req[r].called
        /\ req[r].v[1].Export.Path \notin dirs

\* C18: outside phase "serving" no create or delete is in its transaction and
\* no request is held; from the start of the process to the end of Reload
\* the store and the directories stay as they are and the export table only
\* grows; Reload is entered from the process start only, and serving begins
\* only after Reload has returned.
C18_ReloadFirst ==
    [][/\ phase' # "serving" => (writer' = 0 /\ \A r \in Reqs : req'[r] = Free)
       /\ (phase \in {"boot", "reload", "reloaded"} /\ phase' # "down")
          => (db' = db /\ dirs' = dirs /\ etab \subseteq etab')
       /\ (phase' = "reload" /\ phase # "reload") => phase = "boot"
       /\ phase = "boot" => phase' \in {"boot", "reload", "down"}
       /\ phase = "reloaded" => phase' \in {"reloaded", "serving", "down"}
       /\ phase' = "serving" => phase \in {"reloaded", "serving"}
       /\ phase' = "boot" => phase \in {"down", "boot"}
      ]_vars

\* The process has been started again on a store with records, Reload has
\* returned and a create or delete is in its transaction.
C18_Witness ==
    /\ phase = "serving" /\ died
    /\ Keys(db) # {}
    /\ writer # 0

\* A createVolume or deleteVolume is inside the function of its db.Update.
InTx(r) == req[r].pc \in {"tx", "mkdir", "exportfs", "unexport", "rmdir", "commit"}

\* C19: at most one request is inside the function of its db.Update, and it
\* is the one that holds the writer lock; every other create or delete is
\* before its transaction or has returned.
C19_WriterSerialization ==
    \A r, q \in Reqs : (InTx(r) /\ InTx(q)) => (r = q /\ writer = r)

\* One request stands at its exportfs call (apply or retract) while another
\* create or delete waits for the transaction.
C19_Witness ==
    \E r, q \in Reqs :
        /\ req[r].pc \in {"exportfs", "unexport"}
        /\ req[q].pc = "start"

\* C20: a getVolume served while a createVolume of its name has written the
\* record but not committed answers 404, one served while a deleteVolume of
\* its name has deleted the record but not committed answers 200, and a
\* createVolume that returns 500 leaves the committed store as it was.
C20_ReadIsolation ==
    [][/\ \A g, w \in Reqs :
            (GetServed(g) /\ req[w].name = req'[g].name)
            => /\ (req[w].op = "create" /\ req[w].pc \in {"mkdir", "exportfs", "commit"})
                  => req'[g].status = 404
               /\ (req[w].op = "delete" /\ req[w].pc \in {"unexport", "rmdir", "commit"})
                  => req'[g].status = 200
       /\ \A w \in Creates :
            (req[w].pc # "done" /\ req'[w].pc = "done" /\ req'[w].status = 500)
            => db' = db
      ]_vars

\* A getVolume has been answered 404 while the createVolume of its name has
\* put the record and applied the exports and has not committed.
C20_Witness ==
    \E g, w \in Reqs :
        /\ req[g].op = "get" /\ req[g].pc = "done" /\ req[g].status = 404
        /\ req[w].op = "create" /\ req[w].pc = "commit"
        /\ req[w].name = req[g].name
        /\ Targets(exportfs(req[w].v[1])) \subseteq etab

====
